---------------------------- MODULE Spec2Model ----------------------------
(***************************************************************************)
(* A model of round1a/main.py: the PDF outline extractor.                  *)
(*                                                                         *)
(* Text is modelled character by character: a Python str is a sequence of  *)
(* one-character strings, so that strip, lower, the regular expressions,   *)
(* str.replace and the lexical order of the sort are computed, not         *)
(* assumed.  Point sizes are whole numbers of points and the mean point    *)
(* size is the exact fraction sum/count; the comparisons of the ratio with *)
(* 1.5, 1.2 and 1.0 are made on the fractions.                             *)
(***************************************************************************)
EXTENDS Integers, Sequences, FiniteSets, TLC

VARIABLES
    pc,              \* the control point of the operation being modelled
    hIn, hOut,       \* is_heading: its arguments and its return value
    tDoc, tOut,      \* extract_title: the document given and the string returned
    doc,             \* extract_outline: the document behind pdf_path
    title,           \* extract_outline: local title
    all_texts,       \* extract_outline: local all_texts
    page_num,        \* extract_outline: the page loop's counter
    avg_font_size,   \* extract_outline: local avg_font_size (a fraction)
    outline,         \* extract_outline: local outline
    seen_headings,   \* extract_outline: local seen_headings
    result,          \* extract_outline: the value returned
    raised,          \* extract_outline: the call that raised, "none" if none did
    listing,         \* main: what os.listdir(input_dir) returned
    pos,             \* main: position of the for loop in listing
    attempts,        \* main: the input paths handed to extract_outline, in order
    written          \* main: the output directory, file name -> content

vars == <<pc, hIn, hOut, tDoc, tOut, doc, title, all_texts, page_num,
          avg_font_size, outline, seen_headings, result, raised,
          listing, pos, attempts, written>>

headingVars == <<hIn, hOut>>
titleVars   == <<tDoc, tOut>>
outlineVars == <<doc, title, all_texts, page_num, avg_font_size,
                 outline, seen_headings, result, raised>>
mainVars    == <<listing, pos, attempts, written>>

-----------------------------------------------------------------------------
(* Characters and Python's str operations                                  *)

SetMin(S) == CHOOSE m \in S : \A n \in S : m <= n

SetMax(S) == CHOOSE m \in S : \A n \in S : m >= n

DigitChars == {"0", "1", "2", "3", "4", "5", "6", "7", "8", "9"}

UpperSeq == <<"A", "B", "C", "D", "E", "F", "G", "H", "I", "J", "K", "L", "M",
              "N", "O", "P", "Q", "R", "S", "T", "U", "V", "W", "X", "Y", "Z">>

LowerSeq == <<"a", "b", "c", "d", "e", "f", "g", "h", "i", "j", "k", "l", "m",
              "n", "o", "p", "q", "r", "s", "t", "u", "v", "w", "x", "y", "z">>

UpperChars == {UpperSeq[i] : i \in 1..Len(UpperSeq)}

LowerChars == {LowerSeq[i] : i \in 1..Len(LowerSeq)}

SpaceChars == {" ", "\t", "\n"}

\* The characters \w matches (the texts are ASCII).
WordChars == DigitChars \cup UpperChars \cup LowerChars \cup {"_"}

\* The printable ASCII characters in code-point order, from 32 (space) on.
\* Position 65 (code point 96, the grave accent, which no text here uses)
\* holds a second apostrophe so that the positions stay the code points;
\* CodePoint takes the first position of a character.
AsciiSeq == <<" ", "!", "\"", "#", "$", "%", "&", "'", "(", ")", "*", "+", ",",
              "-", ".", "/", "0", "1", "2", "3", "4", "5", "6", "7", "8", "9",
              ":", ";", "<", "=", ">", "?", "@", "A", "B", "C", "D", "E", "F",
              "G", "H", "I", "J", "K", "L", "M", "N", "O", "P", "Q", "R", "S",
              "T", "U", "V", "W", "X", "Y", "Z", "[", "\\", "]", "^", "_", "'",
              "a", "b", "c", "d", "e", "f", "g", "h", "i", "j", "k", "l", "m",
              "n", "o", "p", "q", "r", "s", "t", "u", "v", "w", "x", "y", "z",
              "{", "|", "}", "~">>

Chars == {AsciiSeq[i] : i \in 1..Len(AsciiSeq)} \cup {"\t", "\n"}

\* ord(c)
CodePoint == [c \in Chars |->
                 IF c = "\t" THEN 9
                 ELSE IF c = "\n" THEN 10
                 ELSE 31 + SetMin({i \in 1..Len(AsciiSeq) : AsciiSeq[i] = c})]

\* c.lower() of one character
LowerOf == [c \in Chars |->
               IF c \in UpperChars
               THEN LowerSeq[CHOOSE i \in 1..Len(UpperSeq) : UpperSeq[i] = c]
               ELSE c]

\* s.strip()
strip(s) ==
    LET keep == {i \in 1..Len(s) : s[i] \notin SpaceChars}
    IN  IF keep = {} THEN <<>> ELSE SubSeq(s, SetMin(keep), SetMax(keep))

\* s.lower()
lower(s) == [i \in 1..Len(s) |-> LowerOf[s[i]]]

\* s.startswith(p)
startswith(s, p) == Len(s) >= Len(p) /\ SubSeq(s, 1, Len(p)) = p

\* s.endswith(p)
endswith(s, p) ==
    Len(s) >= Len(p) /\ SubSeq(s, Len(s) - Len(p) + 1, Len(s)) = p

\* s.isupper(): some cased character, and no lowercase one
isupper(s) ==
    /\ \E i \in 1..Len(s) : s[i] \in UpperChars
    /\ \A i \in 1..Len(s) : s[i] \notin LowerChars

\* s.istitle(): uppercase only after an uncased character, lowercase only
\* after a cased one, and some cased character
istitle(s) ==
    LET cased(i) == s[i] \in UpperChars \cup LowerChars
    IN  /\ \E i \in 1..Len(s) : cased(i)
        /\ \A i \in 1..Len(s) :
              /\ s[i] \in UpperChars => (i = 1 \/ ~cased(i - 1))
              /\ s[i] \in LowerChars => (i > 1 /\ cased(i - 1))

\* len(s.split()): the number of maximal runs of non-whitespace
WordCount(s) ==
    Cardinality({i \in 1..Len(s) :
                    s[i] \notin SpaceChars /\ (i = 1 \/ s[i - 1] \in SpaceChars)})

\* s.split('\n'): the segments between consecutive newlines
SplitLines(s) ==
    LET nl   == {i \in 1..Len(s) : s[i] = "\n"}
        cuts == {0} \cup nl \cup {Len(s) + 1}
        nth(k) == CHOOSE c \in cuts : Cardinality({d \in cuts : d < c}) = k - 1
    IN  [k \in 1..(Cardinality(nl) + 1) |-> SubSeq(s, nth(k) + 1, nth(k + 1) - 1)]

\* '\n'.join(lines)
RECURSIVE JoinLines(_)
JoinLines(lines) ==
    IF lines = <<>> THEN <<>>
    ELSE IF Len(lines) = 1 THEN lines[1]
    ELSE lines[1] \o <<"\n">> \o JoinLines(Tail(lines))

\* a < b for str: the first differing code point decides, a prefix is smaller
StrLess(a, b) ==
    LET n    == IF Len(a) < Len(b) THEN Len(a) ELSE Len(b)
        diff == {i \in 1..n : a[i] # b[i]}
    IN  IF diff = {} THEN Len(a) < Len(b)
        ELSE CodePoint[a[SetMin(diff)]] < CodePoint[b[SetMin(diff)]]

\* c * n
Repeat(c, n) == [i \in 1..n |-> c]

-----------------------------------------------------------------------------
(* is_heading: the skip patterns (matched on text.lower() with re.match)   *)

NoLevel == "None"

\* r'^\d+$'
SkipJustNumbers(t) == Len(t) >= 1 /\ \A i \in 1..Len(t) : t[i] \in DigitChars

\* r'^page \d+', r'^figure \d+', r'^table \d+': the word, one space, a digit
SkipWordNumber(t, word) ==
    /\ startswith(t, word \o <<" ">>)
    /\ Len(t) >= Len(word) + 2
    /\ t[Len(word) + 2] \in DigitChars

\* r'^\w+@\w+\.\w+'
SkipEmail(t) ==
    \E a \in {i \in 1..(Len(t) - 1) : t[i + 1] = "@"} :
        \E d \in {i \in (a + 3)..(Len(t) - 1) : t[i] = "."} :
            /\ \A i \in 1..a : t[i] \in WordChars
            /\ \A i \in (a + 2)..(d - 1) : t[i] \in WordChars
            /\ t[d + 1] \in WordChars

\* r'^http'
SkipUrl(t) == startswith(t, <<"h", "t", "t", "p">>)

\* r'^\(.*\)$' and r'^\[.*\]$': wrapped whole, '.' matching no newline
SkipWrapped(t, open, close) ==
    /\ Len(t) >= 2
    /\ t[1] = open
    /\ t[Len(t)] = close
    /\ \A i \in 2..(Len(t) - 1) : t[i] # "\n"

\* the loop over skip_patterns
MatchesSkipPattern(t) ==
    \/ SkipJustNumbers(t)
    \/ SkipWordNumber(t, <<"p", "a", "g", "e">>)
    \/ SkipWordNumber(t, <<"f", "i", "g", "u", "r", "e">>)
    \/ SkipWordNumber(t, <<"t", "a", "b", "l", "e">>)
    \/ SkipEmail(t)
    \/ SkipUrl(t)
    \/ SkipWrapped(t, "(", ")")
    \/ SkipWrapped(t, "[", "]")

-----------------------------------------------------------------------------
(* is_heading: self.heading_patterns (matched on text with re.match).      *)
(* Each operator gives group(1) of the match, or NoMatch.                  *)

NoMatch == <<"no match">>

\* r'\s*(.+)$' matches what follows position i: some of the whitespace after
\* i is skipped and at least one character, none a newline, is left
RestMatches(text, i) ==
    \E j \in i..(Len(text) - 1) :
        /\ \A k \in (i + 1)..j : text[k] \in SpaceChars
        /\ \A k \in (j + 1)..Len(text) : text[k] # "\n"

\* s has the shape (\d+\.)+
IsNumeralPrefix(s) ==
    /\ Len(s) >= 2
    /\ s[1] \in DigitChars
    /\ s[Len(s)] = "."
    /\ \A i \in 1..Len(s) : s[i] \in DigitChars \cup {"."}
    /\ \A i \in 2..Len(s) : s[i] = "." => s[i - 1] \in DigitChars

\* r'^(\d+\.(?:\d+\.)*)\s*(.+)$': the quantifiers are greedy, so group(1) is
\* the longest numeral prefix that leaves something for (.+)
PatternNumbered(text) ==
    LET ends == {i \in 1..Len(text) :
                    IsNumeralPrefix(SubSeq(text, 1, i)) /\ RestMatches(text, i)}
    IN  IF ends = {} THEN NoMatch ELSE SubSeq(text, 1, SetMax(ends))

\* r'^([IVX]+\.)\s*(.+)$'
PatternRoman(text) ==
    LET ends == {i \in 2..Len(text) :
                    /\ \A k \in 1..(i - 1) : text[k] \in {"I", "V", "X"}
                    /\ text[i] = "."
                    /\ RestMatches(text, i)}
    IN  IF ends = {} THEN NoMatch ELSE SubSeq(text, 1, SetMax(ends))

\* r'^([A-Z]\.)\s*(.+)$'
PatternLettered(text) ==
    IF /\ Len(text) >= 2
       /\ text[1] \in UpperChars
       /\ text[2] = "."
       /\ RestMatches(text, 2)
    THEN SubSeq(text, 1, 2) ELSE NoMatch

\* r'^([A-Z][A-Z\s]+)$'
PatternCapitalized(text) ==
    IF /\ Len(text) >= 2
       /\ text[1] \in UpperChars
       /\ \A i \in 2..Len(text) : text[i] \in UpperChars \cup SpaceChars
    THEN text ELSE NoMatch

\* r'^([A-Z][a-z]+(?:\s+[A-Z][a-z]+)*)$'
PatternTitleCase(text) ==
    IF /\ Len(text) >= 2
       /\ text[1] \in UpperChars
       /\ text[Len(text)] \in LowerChars
       /\ \A i \in 1..Len(text) :
             /\ text[i] \in UpperChars \cup LowerChars \cup SpaceChars
             /\ text[i] \in UpperChars =>
                   /\ i = 1 \/ text[i - 1] \in SpaceChars
                   /\ i < Len(text) /\ text[i + 1] \in LowerChars
             /\ text[i] \in LowerChars =>
                   i > 1 /\ text[i - 1] \in UpperChars \cup LowerChars
             /\ text[i] \in SpaceChars =>
                   i > 1 /\ text[i - 1] \in LowerChars \cup SpaceChars
    THEN text ELSE NoMatch

\* self.heading_patterns, in the order of the list
heading_patterns(text) ==
    <<PatternNumbered(text), PatternRoman(text), PatternLettered(text),
      PatternCapitalized(text), PatternTitleCase(text)>>

\* match.group(1).count('.')
CountDots(s) == Cardinality({i \in 1..Len(s) : s[i] = "."})

\* LevelOfGroup with the branch for a group without a dot giving H2
LevelOfGroupNoDotH2(group) ==
    IF CountDots(group) >= 1
    THEN IF CountDots(group) = 1 THEN "H1"
         ELSE IF CountDots(group) = 2 THEN "H2"
         ELSE "H3"
    ELSE "H2"

\* the level the branch on match.group(1) assigns
LevelOfGroup(group) ==
    IF CountDots(group) >= 1
    THEN IF CountDots(group) = 1 THEN "H1"
         ELSE IF CountDots(group) = 2 THEN "H2"
         ELSE "H3"
    ELSE "H1"

\* the loop over self.heading_patterns: the first pattern that matches
\* decides, and the loop breaks
StructuralLevel(text) ==
    LET groups  == heading_patterns(text)
        matched == {k \in 1..Len(groups) : groups[k] # NoMatch}
    IN  IF matched = {} THEN NoLevel ELSE LevelOfGroup(groups[SetMin(matched)])

-----------------------------------------------------------------------------
(* is_heading: font characteristics.  A mean point size is the fraction    *)
(* [num, den] with den > 0.                                                *)

BoldBit == 16

\* IsBold testing bit 2 of the mask instead of bit 4
IsBoldWrongBit(font_flags) == (font_flags \div 4) % 2 = 1

\* bool(font_flags & 2**4)
IsBold(font_flags) == (font_flags \div BoldBit) % 2 = 1

\* font_size_ratio > p/q, where font_size_ratio is font_size / avg_font_size
\* if avg_font_size > 0 and 1 otherwise
RatioAbove(font_size, avg, p, q) ==
    IF avg.num > 0 THEN q * font_size * avg.den > p * avg.num ELSE q > p

\* the chain "Check font size and style"
StyleLevel(text, font_size, font_flags, avg) ==
    IF RatioAbove(font_size, avg, 3, 2)
          \/ (IsBold(font_flags) /\ RatioAbove(font_size, avg, 6, 5))
    THEN "H1"
    ELSE IF RatioAbove(font_size, avg, 6, 5) \/ IsBold(font_flags)
    THEN "H2"
    ELSE IF RatioAbove(font_size, avg, 1, 1)
               /\ (IsBold(font_flags) \/ isupper(text))
    THEN "H3"
    ELSE NoLevel

MinTextLen == 3

MaxTextLen == 200

AllCapsMinLen == 5

TitleCaseMaxWords == 8

\* the two gates that return (False, None) before any level is looked for
Rejected(text) ==
    \/ Len(text) < MinTextLen
    \/ Len(text) > MaxTextLen
    \/ MatchesSkipPattern(lower(text))

\* is_heading(text, font_size, font_flags, avg_font_size): the tuple returned
is_heading(rawText, font_size, font_flags, avg) ==
    LET text == strip(rawText)
        l1 == StructuralLevel(text)
        l2 == IF l1 = NoLevel
              THEN StyleLevel(text, font_size, font_flags, avg) ELSE l1
        l3 == IF l2 = NoLevel /\ isupper(text) /\ Len(text) > AllCapsMinLen
              THEN "H2" ELSE l2
        l4 == IF l3 = NoLevel /\ istitle(text)
                    /\ WordCount(text) <= TitleCaseMaxWords
              THEN "H3" ELSE l3
    IN  IF Rejected(text) THEN <<FALSE, NoLevel>> ELSE <<l4 # NoLevel, l4>>

-----------------------------------------------------------------------------
(* Texts, as Python writes them in the comment above each                  *)

\* '1. Intro'
TxtIntro ==
    <<"1", ".", " ", "I", "n", "t", "r", "o">>

\* '1.2 Background'
TxtBackground ==
    <<"1", ".", "2", " ", "B", "a", "c", "k", "g", "r", "o", "u", "n", "d">>

\* '1.2.3 Detail'
TxtDetail ==
    <<"1", ".", "2", ".", "3", " ", "D", "e", "t", "a", "i", "l">>

\* '2.3.4.5 Deep'
TxtDeep ==
    <<"2", ".", "3", ".", "4", ".", "5", " ", "D", "e", "e", "p">>

\* '1.2. Scope'
TxtDottedTwo ==
    <<"1", ".", "2", ".", " ", "S", "c", "o", "p", "e">>

\* '1.2.3. Goals'
TxtDottedThree ==
    <<"1", ".", "2", ".", "3", ".", " ", "G", "o", "a", "l", "s">>

\* '12.'
TxtTwelveDot ==
    <<"1", "2", ".">>

\* 'Methods'
TxtMethods ==
    <<"M", "e", "t", "h", "o", "d", "s">>

\* '  Methods\t'
TxtMethodsPadded ==
    <<" ", " ", "M", "e", "t", "h", "o", "d", "s", "\t">>

\* 'Quarterly Report'
TxtQuarterlyReport ==
    <<"Q", "u", "a", "r", "t", "e", "r", "l", "y", " ", "R", "e", "p", "o", "r", "t">>

\* '1. Overview'
TxtOverview ==
    <<"1", ".", " ", "O", "v", "e", "r", "v", "i", "e", "w">>

\* 'Some body text.'
TxtBody ==
    <<"S", "o", "m", "e", " ", "b", "o", "d", "y", " ", "t", "e", "x", "t", ".">>

\* 'IV. Results'
TxtRoman ==
    <<"I", "V", ".", " ", "R", "e", "s", "u", "l", "t", "s">>

\* 'A. Appendix'
TxtLettered ==
    <<"A", ".", " ", "A", "p", "p", "e", "n", "d", "i", "x">>

\* 'RELATED WORK'
TxtCapitalized ==
    <<"R", "E", "L", "A", "T", "E", "D", " ", "W", "O", "R", "K">>

\* 'NOTE 5 ITEMS'
TxtUpperLong ==
    <<"N", "O", "T", "E", " ", "5", " ", "I", "T", "E", "M", "S">>

\* 'FAQ 2'
TxtUpperShort ==
    <<"F", "A", "Q", " ", "2">>

\* 'Results 2020'
TxtTitleDigits ==
    <<"R", "e", "s", "u", "l", "t", "s", " ", "2", "0", "2", "0">>

\* 'One2 Two2 Three2 Four2 Five2 Six2 Seven2 Eight2 Nine2'
TxtNineWords ==
    <<"O", "n", "e", "2", " ", "T", "w", "o", "2", " ", "T", "h", "r", "e", "e", "2", " ", "F", "o", "u", "r", "2", " ", "F", "i", "v", "e", "2", " ", "S", "i", "x", "2", " ", "S", "e", "v", "e", "n", "2", " ", "E", "i", "g", "h", "t", "2", " ", "N", "i", "n", "e", "2">>

\* '42'
TxtDigits ==
    <<"4", "2">>

\* '2024'
TxtDigitsLong ==
    <<"2", "0", "2", "4">>

\* 'Page 3'
TxtPage ==
    <<"P", "a", "g", "e", " ", "3">>

\* 'Figure 1'
TxtFigure ==
    <<"F", "i", "g", "u", "r", "e", " ", "1">>

\* 'table 12 results'
TxtTable ==
    <<"t", "a", "b", "l", "e", " ", "1", "2", " ", "r", "e", "s", "u", "l", "t", "s">>

\* 'a@b.com'
TxtEmail ==
    <<"a", "@", "b", ".", "c", "o", "m">>

\* 'http://x'
TxtUrl ==
    <<"h", "t", "t", "p", ":", "/", "/", "x">>

\* '(note)'
TxtParens ==
    <<"(", "n", "o", "t", "e", ")">>

\* '[ref]'
TxtBrackets ==
    <<"[", "r", "e", "f", "]">>

\* 'Ab'
TxtTooShort ==
    <<"A", "b">>

\* '   '
TxtBlank ==
    <<" ", " ", " ">>

\* 'plain words'
TxtLowercase ==
    <<"p", "l", "a", "i", "n", " ", "w", "o", "r", "d", "s">>

\* 'A' + 'b' * 199: a title-case word of 200 characters
TxtLongest == <<"A">> \o Repeat("b", MaxTextLen - 1)

\* 'A' + 'b' * 200: 201 characters
TxtTooLong == <<"A">> \o Repeat("b", MaxTextLen)

-----------------------------------------------------------------------------
(* The classifier alone: is_heading called once on arguments drawn from    *)
(* the sets below.                                                         *)

HeadingTexts ==
    {TxtIntro, TxtBackground, TxtDetail, TxtDeep, TxtDottedTwo, TxtDottedThree,
     TxtTwelveDot, TxtMethods, TxtMethodsPadded,
     TxtQuarterlyReport, TxtOverview, TxtBody, TxtRoman, TxtLettered,
     TxtCapitalized, TxtUpperLong, TxtUpperShort, TxtTitleDigits, TxtNineWords,
     TxtDigits, TxtDigitsLong, TxtPage, TxtFigure, TxtTable, TxtEmail, TxtUrl,
     TxtParens, TxtBrackets, TxtTooShort, TxtBlank, TxtLowercase, TxtLongest,
     TxtTooLong}

HeadingSizes == {0, 9, 10, 11, 12, 13, 15, 16, 24}

\* span flags: bit 4 (16) is bold; 4 is another bit of the mask, 20 is both
HeadingFlags == {0, 4, 16, 20}

\* mean point sizes: 10, 12, 15.5, and 0 (every span of size 0)
HeadingMeans ==
    {[num |-> 10, den |-> 1], [num |-> 12, den |-> 1],
     [num |-> 31, den |-> 2], [num |-> 0, den |-> 1]}

NotCalled == <<"not called">>

Idle == "idle"

InitHeading ==
    /\ pc = "is_heading"
    /\ hIn \in [text : HeadingTexts, font_size : HeadingSizes,
                font_flags : HeadingFlags, avg : HeadingMeans]
    /\ hOut = NotCalled
    /\ tDoc = Idle /\ tOut = Idle
    /\ doc = Idle /\ title = Idle /\ all_texts = Idle /\ page_num = Idle
    /\ avg_font_size = Idle /\ outline = Idle
    /\ seen_headings = Idle /\ result = Idle /\ raised = Idle
    /\ listing = Idle /\ pos = Idle /\ attempts = Idle /\ written = Idle

\* one call of is_heading
CallIsHeading ==
    /\ pc = "is_heading"
    /\ hOut' = is_heading(hIn.text, hIn.font_size, hIn.font_flags, hIn.avg)
    /\ pc' = "is_heading returned"
    /\ UNCHANGED <<hIn, titleVars, outlineVars, mainVars>>

NextHeading == CallIsHeading

SpecHeading == InitHeading /\ [][NextHeading]_vars

-----------------------------------------------------------------------------
(* Properties of is_heading                                                *)

HeadingReturned == pc = "is_heading returned"

MeanTen == [num |-> 10, den |-> 1]

\* the number of integer groups of the decimal numeral a text starts with:
\* the runs of digits in its longest prefix of digits and dots
NumeralGroups(text) ==
    LET stop == {i \in 1..Len(text) : text[i] \notin DigitChars \cup {"."}}
        n    == IF stop = {} THEN Len(text) ELSE SetMin(stop) - 1
    IN  Cardinality({i \in 1..n :
                        text[i] \in DigitChars
                            /\ (i = 1 \/ text[i - 1] \notin DigitChars)})

\* a text that is_heading takes, after the gates, as a decimal-numbered heading
IsDecimalNumbered(text) ==
    ~Rejected(strip(text)) /\ PatternNumbered(strip(text)) # NoMatch

\* C2: whatever the font size, the flags and the mean font size, "1. Intro"
\* is H1, "1.2 Background" is H2, "1.2.3 Detail" is H3 and "2.3.4.5 Deep"
\* is H3; a decimal-numbered heading whose numeral has k integer groups is
\* H1 for k = 1, H2 for k = 2 and H3 for k >= 3.
NumberedHeadingLevelLaw ==
    HeadingReturned =>
        /\ hIn.text = TxtIntro => hOut = <<TRUE, "H1">>
        /\ hIn.text = TxtBackground => hOut = <<TRUE, "H2">>
        /\ hIn.text = TxtDetail => hOut = <<TRUE, "H3">>
        /\ hIn.text = TxtDeep => hOut = <<TRUE, "H3">>
        /\ IsDecimalNumbered(hIn.text) =>
              hOut = <<TRUE, IF NumeralGroups(strip(hIn.text)) = 1 THEN "H1"
                             ELSE IF NumeralGroups(strip(hIn.text)) = 2 THEN "H2"
                             ELSE "H3">>

\* the case of C4: "Methods", bold bit clear, mean point size 10
MethodsCase(size) ==
    /\ HeadingReturned
    /\ hIn.text = TxtMethods
    /\ hIn.avg = MeanTen
    /\ ~IsBold(hIn.font_flags)
    /\ hIn.font_size = size

\* C4 as stated: with mean point size 10 and the bold bit clear, "Methods"
\* is (true, H1) at point size 16 and (false, none) at point size 11.
StyleFallbackLawAsStated ==
    /\ MethodsCase(16) => hOut = <<TRUE, "H1">>
    /\ MethodsCase(11) => hOut = <<FALSE, NoLevel>>

\* C4 as amended: with mean point size 10 and the bold bit clear, "Methods"
\* is (true, H1) at point size 16 and at point size 11 alike: the text
\* matches the title-case pattern, which decides before any font metric.
StyleFallbackLawAmended ==
    /\ MethodsCase(16) => hOut = <<TRUE, "H1">>
    /\ MethodsCase(11) => hOut = <<TRUE, "H1">>

\* "Methods" at point size 11 has been classified, and is a heading
MethodsAtElevenClassified == MethodsCase(11) /\ hOut[1]

\* ratio > p/q, with ratio = pointSize / meanPointSize, taken as 1 when the
\* mean is not positive
TableRatioAbove(p, q) ==
    IF hIn.avg.num <= 0 THEN q > p
    ELSE q * hIn.font_size * hIn.avg.den > p * hIn.avg.num

TableBold == (hIn.font_flags \div 16) % 2 = 1

\* the ordered decision table of the style-based fallback
TableLevel ==
    LET text == strip(hIn.text)
    IN  IF TableRatioAbove(3, 2) \/ (TableBold /\ TableRatioAbove(6, 5))
        THEN "H1"
        ELSE IF TableRatioAbove(6, 5) \/ TableBold THEN "H2"
        ELSE IF TableRatioAbove(1, 1) /\ isupper(text) THEN "H3"
        ELSE IF isupper(text) /\ Len(text) > 5 THEN "H2"
        ELSE IF istitle(text) /\ WordCount(text) <= 8 THEN "H3"
        ELSE NoLevel

\* the text passed the length and noise gates and matched no structural pattern
ReachesFallback ==
    /\ HeadingReturned
    /\ ~Rejected(strip(hIn.text))
    /\ \A k \in 1..5 : heading_patterns(strip(hIn.text))[k] = NoMatch

\* C9: for a text that passes the gates and matches no structural pattern,
\* is_heading returns the level of the ordered decision table; the flag is
\* true exactly when a level is returned, and a level is H1, H2 or H3.
StyleDecisionTable ==
    /\ ReachesFallback => hOut = <<TableLevel # NoLevel, TableLevel>>
    /\ HeadingReturned =>
          /\ hOut[1] <=> hOut[2] # NoLevel
          /\ hOut[2] \in {"H1", "H2", "H3", NoLevel}

\* a bold text of ordinary size, with no structure, came out as H2
BoldFallbackClassified ==
    /\ ReachesFallback
    /\ TableBold
    /\ ~TableRatioAbove(6, 5)
    /\ hOut = <<TRUE, "H2">>

-----------------------------------------------------------------------------
(* extract_title.  A document is the record                                *)
(*   meta  : doc.metadata's 'title', [present, title] (absent: None)       *)
(*   pages : len(doc)                                                      *)
(*   text  : doc[0].get_text()                                             *)

TitleMinLen == 10

TitleMaxLen == 100

TitleScanLines == 5

\* 'Draft v1.0'
LineTen ==
    <<"D", "r", "a", "f", "t", " ", "v", "1", ".", "0">>

\* 'Widget Labs'
LineEleven ==
    <<"W", "i", "d", "g", "e", "t", " ", "L", "a", "b", "s">>

\* 'Abstract of the study'
LineAbstract ==
    <<"A", "b", "s", "t", "r", "a", "c", "t", " ", "o", "f", " ", "t", "h", "e", " ", "s", "t", "u", "d", "y">>

\* 'ABSTRACT: a summary'
LineAbstractUpper ==
    <<"A", "B", "S", "T", "R", "A", "C", "T", ":", " ", "a", " ", "s", "u", "m", "m", "a", "r", "y">>

\* '2024 Annual Report'
LineDigit ==
    <<"2", "0", "2", "4", " ", "A", "n", "n", "u", "a", "l", " ", "R", "e", "p", "o", "r", "t">>

\* 'A Study of Widgets'
LineGood ==
    <<"A", " ", "S", "t", "u", "d", "y", " ", "o", "f", " ", "W", "i", "d", "g", "e", "t", "s">>

\* '\t  A Study of Gadgets  '
LinePadded ==
    <<"\t", " ", " ", "A", " ", "S", "t", "u", "d", "y", " ", "o", "f", " ", "G", "a", "d", "g", "e", "t", "s", " ", " ">>

\* '  Draft v1.0   '
LinePaddedTen ==
    <<" ", " ", "D", "r", "a", "f", "t", " ", "v", "1", ".", "0", " ", " ", " ">>

\* '   '
LineBlank ==
    <<" ", " ", " ">>

\* 'Page 1'
LineShort ==
    <<"P", "a", "g", "e", " ", "1">>

\* '  My Paper  '
TitleMyPaperPadded ==
    <<" ", " ", "M", "y", " ", "P", "a", "p", "e", "r", " ", " ">>

\* 'My Paper'
TitleMyPaper ==
    <<"M", "y", " ", "P", "a", "p", "e", "r">>

\* 'Untitled Document'
TitleUntitled ==
    <<"U", "n", "t", "i", "t", "l", "e", "d", " ", "D", "o", "c", "u", "m", "e", "n", "t">>

\* 'Error Processing Document'
TitleError ==
    <<"E", "r", "r", "o", "r", " ", "P", "r", "o", "c", "e", "s", "s", "i", "n", "g", " ", "D", "o", "c", "u", "m", "e", "n", "t">>

\* 'abstract'
WordAbstract ==
    <<"a", "b", "s", "t", "r", "a", "c", "t">>

\* 'T' + 'x' * 98: 99 characters
Line99 == <<"T">> \o Repeat("x", TitleMaxLen - 2)

\* 'T' + 'x' * 99: 100 characters
Line100 == <<"T">> \o Repeat("x", TitleMaxLen - 1)

\* [line.strip() for line in text.split('\n') if line.strip()]
StrippedLines(text) ==
    LET raw == SplitLines(text)
    IN  SelectSeq([k \in 1..Len(raw) |-> strip(raw[k])], LAMBDA l : l # <<>>)

\* QualifiesAsTitle with the lower length bound not strict
QualifiesAsTitleFromTen(line) ==
    /\ Len(line) >= TitleMinLen /\ Len(line) < TitleMaxLen
    /\ line[1] \notin DigitChars
    /\ ~startswith(lower(line), WordAbstract)

\* the two conditions a first-page line passes to be returned
QualifiesAsTitle(line) ==
    /\ Len(line) > TitleMinLen /\ Len(line) < TitleMaxLen
    /\ line[1] \notin DigitChars
    /\ ~startswith(lower(line), WordAbstract)

\* lines[:n]
FirstLines(lines, n) == SubSeq(lines, 1, IF Len(lines) < n THEN Len(lines) ELSE n)

\* extract_title(doc)
extract_title(d) ==
    IF d.meta.present /\ d.meta.title # <<>> /\ strip(d.meta.title) # <<>>
    THEN strip(d.meta.title)
    ELSE IF d.pages > 0
    THEN LET lines == FirstLines(StrippedLines(d.text), TitleScanLines)
             good  == {i \in 1..Len(lines) : QualifiesAsTitle(lines[i])}
         IN  IF good = {} THEN TitleUntitled ELSE lines[SetMin(good)]
    ELSE TitleUntitled

-----------------------------------------------------------------------------
(* The title resolver alone: extract_title called once on a document drawn *)
(* from the sets below.  The first page is composed of at most MaxLines    *)
(* raw lines: copies of one filler line and, at any two places, any two    *)
(* lines of TitleLines.                                                    *)

MaxLines == 6

FillerLines == {LineBlank, LineShort}

TitleLines ==
    {LineTen, LineEleven, Line99, Line100, LineAbstract, LineAbstractUpper,
     LineDigit, LineGood, LinePadded, LinePaddedTen} \cup FillerLines

NoTitle == [present |-> FALSE, title |-> <<>>]

MetaTitles ==
    {NoTitle} \cup {[present |-> TRUE, title |-> t] :
                       t \in {<<>>, LineBlank, TitleMyPaperPadded}}

\* a first page of n raw lines: p at place a, q at place b, f elsewhere
FirstPage(n, a, b, p, q, f) ==
    [i \in 1..n |-> IF i = a THEN p ELSE IF i = b THEN q ELSE f]

\* a document with a first page composed of lines; rawLines records them
TitleDoc(m, lines) ==
    [meta |-> m, pages |-> 1, text |-> JoinLines(lines), rawLines |-> lines]

\* a document without pages
EmptyDoc(m) == [meta |-> m, pages |-> 0, text |-> <<>>, rawLines |-> <<>>]

InitTitle ==
    /\ pc = "extract_title"
    /\ \E m \in MetaTitles :
          \/ tDoc = EmptyDoc(m)
          \/ \E n \in 0..MaxLines, f \in FillerLines :
                \E a \in 1..n, b \in 1..n, p \in TitleLines, q \in TitleLines :
                   tDoc = TitleDoc(m, FirstPage(n, a, b, p, q, f))
          \/ tDoc = TitleDoc(m, <<>>)
    /\ tOut = NotCalled
    /\ hIn = Idle /\ hOut = Idle
    /\ doc = Idle /\ title = Idle /\ all_texts = Idle /\ page_num = Idle
    /\ avg_font_size = Idle /\ outline = Idle
    /\ seen_headings = Idle /\ result = Idle /\ raised = Idle
    /\ listing = Idle /\ pos = Idle /\ attempts = Idle /\ written = Idle

\* one call of extract_title
CallExtractTitle ==
    /\ pc = "extract_title"
    /\ tOut' = extract_title(tDoc)
    /\ pc' = "extract_title returned"
    /\ UNCHANGED <<tDoc, headingVars, outlineVars, mainVars>>

NextTitle == CallExtractTitle

SpecTitle == InitTitle /\ [][NextTitle]_vars

-----------------------------------------------------------------------------
(* Properties of extract_title                                             *)

TitleReturned == pc = "extract_title returned"

\* the metadata title, trimmed, when it is present and not empty after that
TrimmedMetaTitle == IF tDoc.meta.present THEN strip(tDoc.meta.title) ELSE <<>>

\* the non-empty trimmed lines of the first page, from the lines it was
\* composed of
TrimmedLines ==
    SelectSeq([k \in 1..Len(tDoc.rawLines) |-> strip(tDoc.rawLines[k])],
              LAMBDA l : l # <<>>)

\* a line longer than 10 and shorter than 100 that starts with no digit
\* and, case-insensitively, not with "abstract"
LineQualifies(line) ==
    /\ Len(line) > 10 /\ Len(line) < 100
    /\ line[1] \notin DigitChars
    /\ ~startswith(lower(line), WordAbstract)

\* the positions among the first five of lines at which a line qualifies
QualifyingPositions(lines) ==
    IF tDoc.pages = 0 THEN {}
    ELSE {k \in 1..Len(lines) : k <= 5 /\ LineQualifies(lines[k])}

\* C7: the title is (1) the trimmed metadata title when that is not empty,
\* (2) otherwise the first qualifying line among the first five non-empty
\* trimmed first-page lines, (3) otherwise "Untitled Document"; a line at
\* position six or later is never chosen and the title is never empty.
TitleResolution ==
    TitleReturned =>
        LET meta  == TrimmedMetaTitle
            lines == TrimmedLines
            good  == QualifyingPositions(lines)
        IN  /\ meta # <<>> => tOut = meta
            /\ meta = <<>> /\ good # {} => tOut = lines[SetMin(good)]
            /\ meta = <<>> /\ good = {} => tOut = TitleUntitled
            /\ tOut # <<>>

\* no metadata title, five lines that do not qualify, a sixth that does:
\* the sentinel was returned
SixthLinePassedOver ==
    /\ TitleReturned
    /\ TrimmedMetaTitle = <<>>
    /\ Len(tDoc.rawLines) >= 6
    /\ tOut = TitleUntitled
    /\ LET lines == TrimmedLines
       IN  /\ Len(lines) >= 6
           /\ LineQualifies(lines[6])
           /\ QualifyingPositions(lines) = {}

-----------------------------------------------------------------------------
(* extract_outline.  A document is a title document with, in addition,     *)
(*   spans : the spans of page.get_text("dict") of every page, in the      *)
(*           order of the nested loops over blocks, lines and spans, each  *)
(*           [text, size, flags, page], page counted from 1                *)

\* CollectPage numbering the pages from 0, as page_num does
CollectPageZeroBased(d, p) ==
    LET onPage == SelectSeq(d.spans, LAMBDA sp : sp.page = p)
        kept   == SelectSeq(onPage, LAMBDA sp : strip(sp.text) # <<>>)
    IN  [k \in 1..Len(kept) |->
            [text |-> strip(kept[k].text), font_size |-> kept[k].size,
             font_flags |-> kept[k].flags, page |-> p - 1]]

\* the entries extract_outline appends to all_texts for page p: the spans
\* whose stripped text is not empty, with the stripped text
CollectPage(d, p) ==
    LET onPage == SelectSeq(d.spans, LAMBDA sp : sp.page = p)
        kept   == SelectSeq(onPage, LAMBDA sp : strip(sp.text) # <<>>)
    IN  [k \in 1..Len(kept) |->
            [text |-> strip(kept[k].text), font_size |-> kept[k].size,
             font_flags |-> kept[k].flags, page |-> p]]

DefaultFontSize == 12

RECURSIVE SumSizes(_)
\* sum(font_sizes)
SumSizes(texts) ==
    IF texts = <<>> THEN 0 ELSE Head(texts).font_size + SumSizes(Tail(texts))

\* sum(font_sizes) / len(font_sizes) if font_sizes else 12
MeanFontSize(texts) ==
    IF texts # <<>> THEN [num |-> SumSizes(texts), den |-> Len(texts)]
    ELSE [num |-> DefaultFontSize, den |-> 1]

\* SeenKey keeping the level beside the text
SeenKeyWithLevel(level, text) == <<level, text>>

\* what seen_headings holds of an accepted span: its text
SeenKey(level, text) == text

\* AlreadySeen that finds nothing
AlreadySeenNever(level, text, seen) == FALSE

\* text in seen_headings
AlreadySeen(level, text, seen) == SeenKey(level, text) \in seen

\* outline = [] and seen_headings = set()
NoneAccepted == [outline |-> <<>>, seen_headings |-> {}]

\* one turn of the loop "Process each text span": span t, which is_heading
\* answered with h, against outline out and seen_headings seen
ProcessSpan(t, h, out, seen) ==
    IF h[1] /\ h[2] # NoLevel /\ ~AlreadySeen(h[2], t.text, seen)
    THEN [outline |-> Append(out, [level |-> h[2], text |-> t.text,
                                   page |-> t.page]),
          seen_headings |-> seen \cup {SeenKey(h[2], t.text)}]
    ELSE [outline |-> out, seen_headings |-> seen]

RECURSIVE FirstPass(_, _, _)
\* the loop "Process each text span" over texts, from the outline and the
\* seen_headings of acc
FirstPass(texts, avg, acc) ==
    IF texts = <<>> THEN acc
    ELSE FirstPass(Tail(texts), avg,
                   ProcessSpan(Head(texts),
                               is_heading(Head(texts).text,
                                          Head(texts).font_size,
                                          Head(texts).font_flags, avg),
                               acc.outline, acc.seen_headings))

\* KeyLess comparing the pages alone
KeyLessByPage(a, b) == a.page < b.page

\* (a['page'], a['text']) < (b['page'], b['text'])
KeyLess(a, b) ==
    \/ a.page < b.page
    \/ a.page = b.page /\ StrLess(a.text, b.text)

RECURSIVE InsertSorted(_, _)
\* item put into a sorted list, after the entries whose key is not greater
InsertSorted(sorted, item) ==
    IF sorted = <<>> THEN <<item>>
    ELSE IF KeyLess(item, Head(sorted)) THEN <<item>> \o sorted
    ELSE <<Head(sorted)>> \o InsertSorted(Tail(sorted), item)

RECURSIVE SortOutline(_)
\* outline.sort(key=lambda x: (x['page'], x['text'])): a stable sort
SortOutline(items) ==
    IF items = <<>> THEN <<>>
    ELSE InsertSorted(SortOutline(SubSeq(items, 1, Len(items) - 1)),
                      items[Len(items)])

RECURSIVE RemoveDuplicates(_, _, _)
\* the loop "Remove duplicates while preserving order" over items, from
\* unique_outline unique and seen
RemoveDuplicates(items, unique, seen) ==
    IF items = <<>> THEN unique
    ELSE LET item == Head(items)
             key  == <<item.level, item.text>>
         IN  IF key \notin seen
             THEN RemoveDuplicates(Tail(items), Append(unique, item),
                                   seen \cup {key})
             ELSE RemoveDuplicates(Tail(items), unique, seen)

\* ErrorResult with the title of a document that has none
ErrorResultUntitled == [title |-> TitleUntitled, outline |-> <<>>]

\* what the except branch returns
ErrorResult == [title |-> TitleError, outline |-> <<>>]

\* the state of a call of extract_outline on d that has not started
EnterExtractOutline(d) ==
    /\ doc = d
    /\ title = NotCalled
    /\ all_texts = <<>>
    /\ page_num = 0
    /\ avg_font_size = NotCalled
    /\ outline = <<>>
    /\ seen_headings = {}
    /\ result = NotCalled
    /\ raised = "none"

\* doc = fitz.open(pdf_path)
OpenDocument ==
    /\ pc = "extract_outline"
    /\ pc' = "opened"
    /\ UNCHANGED <<outlineVars, headingVars, titleVars, mainVars>>

\* title = self.extract_title(doc); outline = []; all_texts = []
ResolveTitle ==
    /\ pc = "opened"
    /\ title' = extract_title(doc)
    /\ outline' = <<>>
    /\ all_texts' = <<>>
    /\ page_num' = 0
    /\ pc' = "pages"
    /\ UNCHANGED <<doc, avg_font_size, seen_headings, result, raised,
                   headingVars, titleVars, mainVars>>

\* one turn of "for page_num in range(len(doc))"
ExtractPage ==
    /\ pc = "pages"
    /\ page_num < doc.pages
    /\ all_texts' = all_texts \o CollectPage(doc, page_num + 1)
    /\ page_num' = page_num + 1
    /\ UNCHANGED <<pc, doc, title, avg_font_size, outline, seen_headings,
                   result, raised, headingVars, titleVars, mainVars>>

\* outline and seen_headings after the loop "Process each text span"
ClassifiedInto(pass) ==
    /\ outline' = pass.outline
    /\ seen_headings' = pass.seen_headings

\* the mean, then the loop "Process each text span"
ClassifySpans ==
    /\ pc = "pages"
    /\ page_num = doc.pages
    /\ avg_font_size' = MeanFontSize(all_texts)
    /\ ClassifiedInto(FirstPass(all_texts, MeanFontSize(all_texts),
                                [outline |-> outline, seen_headings |-> {}]))
    /\ pc' = "classified"
    /\ UNCHANGED <<doc, title, all_texts, page_num, result, raised,
                   headingVars, titleVars, mainVars>>

\* outline.sort(...)
SortEntries ==
    /\ pc = "classified"
    /\ outline' = SortOutline(outline)
    /\ pc' = "sorted"
    /\ UNCHANGED <<doc, title, all_texts, page_num, avg_font_size,
                   seen_headings, result, raised, headingVars, titleVars,
                   mainVars>>

\* the second loop, doc.close() and the return
ReturnOutline ==
    /\ pc = "sorted"
    /\ result' = [title |-> title,
                  outline |-> RemoveDuplicates(outline, <<>>, {})]
    /\ pc' = "extract_outline returned"
    /\ UNCHANGED <<doc, title, all_texts, page_num, avg_font_size, outline,
                   seen_headings, raised, headingVars, titleVars, mainVars>>

\* the call about to be made at this point of the try block, if it is one
\* of fitz.open, extract_title and page.get_text
CallAbout ==
    IF pc = "extract_outline" THEN "open"
    ELSE IF pc = "opened" THEN "title"
    ELSE IF pc = "pages" /\ page_num < doc.pages THEN "page"
    ELSE "none"

\* that call raises an Exception: the except branch returns
HandleException ==
    /\ CallAbout # "none"
    /\ raised' = CallAbout
    /\ result' = ErrorResult
    /\ pc' = "extract_outline returned"
    /\ UNCHANGED <<doc, title, all_texts, page_num, avg_font_size, outline,
                   seen_headings, headingVars, titleVars, mainVars>>

-----------------------------------------------------------------------------
(* extract_outline called once, on a document drawn from the sets below:   *)
(* at most MaxPages pages holding at most MaxSpans spans of SpanPool, in   *)
(* page order, or the document of the end-to-end scenario.                 *)

MaxPages == 2

MaxSpans == 3

SpanOverview == [text |-> TxtOverview, size |-> 14, flags |-> 0]

SpanBody == [text |-> TxtBody, size |-> 10, flags |-> 0]

SpanBodyBold == [text |-> TxtBody, size |-> 10, flags |-> 16]

SpanBodyLarge == [text |-> TxtBody, size |-> 24, flags |-> 0]

SpanReport == [text |-> TxtQuarterlyReport, size |-> 24, flags |-> 0]

SpanBlank == [text |-> TxtBlank, size |-> 10, flags |-> 0]

SpanPool == {SpanOverview, SpanBody, SpanBodyBold, SpanBodyLarge, SpanBlank}

OnPage(span, p) ==
    [text |-> span.text, size |-> span.size, flags |-> span.flags, page |-> p]

\* f puts k spans on pages 1..n in page order
InPageOrder(f, k) == \A i \in 1..(k - 1) : f[i] <= f[i + 1]

\* the end-to-end scenario: no metadata title, first-page lines
\* ["Quarterly Report"], four fragments on two pages
ScenarioDoc ==
    [meta |-> NoTitle, pages |-> 2, text |-> TxtQuarterlyReport,
     spans |-> <<OnPage(SpanReport, 1), OnPage(SpanOverview, 1),
                 OnPage(SpanBody, 1), OnPage(SpanOverview, 2)>>]

InitOutline ==
    /\ pc = "extract_outline"
    /\ \/ \E n \in 0..MaxPages, k \in 0..MaxSpans :
             \E c \in [1..k -> SpanPool], f \in [1..k -> 1..n] :
                /\ InPageOrder(f, k)
                /\ EnterExtractOutline(
                       [meta |-> NoTitle, pages |-> n,
                        text |-> IF n = 0 THEN <<>> ELSE TxtQuarterlyReport,
                        spans |-> [i \in 1..k |-> OnPage(c[i], f[i])]])
       \/ EnterExtractOutline(ScenarioDoc)
    /\ hIn = Idle /\ hOut = Idle
    /\ tDoc = Idle /\ tOut = Idle
    /\ listing = Idle /\ pos = Idle /\ attempts = Idle /\ written = Idle

NextOutline ==
    \/ OpenDocument
    \/ ResolveTitle
    \/ ExtractPage
    \/ ClassifySpans
    \/ SortEntries
    \/ ReturnOutline
    \/ HandleException

SpecOutline == InitOutline /\ [][NextOutline]_vars

-----------------------------------------------------------------------------
(* Properties of extract_outline                                           *)

\* extract_outline returned from its try block
OutlineReturned == pc = "extract_outline returned" /\ raised = "none"

\* is_heading of every entry of all_texts against the document's mean
Classified ==
    [k \in 1..Len(all_texts) |->
        is_heading(all_texts[k].text, all_texts[k].font_size,
                   all_texts[k].font_flags, MeanFontSize(all_texts))]

\* the positions of all_texts at which text t qualifies as a heading
QualifyingAt(t, heads) ==
    {k \in 1..Len(all_texts) : all_texts[k].text = t /\ heads[k][1]}

\* t qualifies as a heading on more than one page
OnSeveralPages(t, heads) ==
    \E j \in QualifyingAt(t, heads), k \in QualifyingAt(t, heads) :
        all_texts[j].page # all_texts[k].page

\* C1: the outline returned never holds two entries with the same (level,
\* text), and a text that qualifies as a heading on several pages has one
\* entry, with the page and the level of its first qualifying occurrence in
\* document order.
NoDuplicateHeadings ==
    OutlineReturned =>
        LET out   == result.outline
            heads == Classified
        IN  /\ \A i \in 1..Len(out), j \in 1..Len(out) :
                  i # j => <<out[i].level, out[i].text>>
                              # <<out[j].level, out[j].text>>
            /\ \A n \in 1..Len(all_texts) :
                  OnSeveralPages(all_texts[n].text, heads) =>
                     LET t     == all_texts[n].text
                         first == SetMin(QualifyingAt(t, heads))
                         kept  == {i \in 1..Len(out) : out[i].text = t}
                     IN  /\ Cardinality(kept) = 1
                         /\ \A i \in kept :
                               /\ out[i].page = all_texts[first].page
                               /\ out[i].level = heads[first][2]

\* a text qualified on pages 1 and 2, at two levels, and the outline was
\* returned
RepeatedHeadingReturned ==
    /\ OutlineReturned
    /\ LET heads == Classified
       IN  \E j \in 1..Len(all_texts), k \in 1..Len(all_texts) :
              /\ all_texts[j].text = all_texts[k].text
              /\ all_texts[j].page < all_texts[k].page
              /\ heads[j][1] /\ heads[k][1]
              /\ heads[j][2] # heads[k][2]

\* the result of the end-to-end scenario has been returned
ScenarioReturned == OutlineReturned /\ doc = ScenarioDoc

EntryOverview == [level |-> "H1", text |-> TxtOverview, page |-> 1]

EntryReport == [level |-> "H1", text |-> TxtQuarterlyReport, page |-> 1]

\* C3 as stated: the scenario gives the title "Quarterly Report" and the
\* headings [H1 "1. Overview" page 1], nothing else.
ScenarioAsStated ==
    ScenarioReturned =>
        result = [title |-> TxtQuarterlyReport, outline |-> <<EntryOverview>>]

\* C3 as amended: the scenario gives the title "Quarterly Report" and the
\* headings [H1 "1. Overview" page 1, H1 "Quarterly Report" page 1]; every
\* fragment is classified alike against the mean 10 the scenario names and
\* the mean 15.5 of its four fragments.
ScenarioAmended ==
    ScenarioReturned =>
        /\ result = [title |-> TxtQuarterlyReport,
                     outline |-> <<EntryOverview, EntryReport>>]
        /\ avg_font_size = [num |-> 62, den |-> 4]
        /\ \A k \in 1..Len(all_texts) :
              is_heading(all_texts[k].text, all_texts[k].font_size,
                         all_texts[k].font_flags, MeanTen)
                 = is_heading(all_texts[k].text, all_texts[k].font_size,
                              all_texts[k].font_flags, avg_font_size)

\* the scenario returned, its four fragments read
ScenarioRan == ScenarioReturned /\ Len(all_texts) = 4 /\ title = TxtQuarterlyReport

\* C5: when opening the document, resolving its title or extracting a page
\* raises, extract_outline returns the title "Error Processing Document"
\* and no headings.
ExceptionGivesDegradedResult ==
    pc = "extract_outline returned" /\ raised # "none" =>
        result = [title |-> TitleError, outline |-> <<>>]

\* the second page raised after the first had given a numbered heading
RaisedAfterHeadingRead ==
    /\ pc = "extract_outline returned"
    /\ raised = "page"
    /\ \E k \in 1..Len(all_texts) : all_texts[k].text = TxtOverview
    /\ result.outline = <<>>

\* C8: consecutive entries of the outline returned are in ascending order
\* of page and, on one page, in ascending lexical order of text.
OrderedByPageThenText ==
    OutlineReturned =>
        LET out == result.outline
        IN  \A i \in 1..(Len(out) - 1) :
               \/ out[i].page < out[i + 1].page
               \/ /\ out[i].page = out[i + 1].page
                  /\ StrLess(out[i].text, out[i + 1].text)

\* two headings of one page were returned in the reverse of their order in
\* the document
ReorderedWithinPage ==
    /\ OutlineReturned
    /\ \E i \in 1..(Len(result.outline) - 1) :
          \E j \in 1..Len(all_texts), k \in 1..Len(all_texts) :
             /\ j < k
             /\ all_texts[j].text = result.outline[i + 1].text
             /\ all_texts[k].text = result.outline[i].text
             /\ all_texts[j].page = all_texts[k].page
             /\ result.outline[i].page = result.outline[i + 1].page

\* C10: after the first pass no two accepted entries share a text; the
\* second deduplication removes nothing, the outline returned being the
\* sorted first-pass list.
FirstPassKeepsTextsUnique ==
    /\ pc = "classified" =>
          \A i \in 1..Len(outline), j \in 1..Len(outline) :
             i # j => outline[i].text # outline[j].text
    /\ OutlineReturned =>
          /\ result.outline = outline
          /\ result.outline
                = SortOutline(FirstPass(all_texts, avg_font_size, NoneAccepted).outline)

\* the first pass dropped a later span whose text was accepted before at
\* another level
LaterLevelDropped ==
    /\ pc = "classified"
    /\ LET heads == Classified
       IN  \E j \in 1..Len(all_texts), k \in 1..Len(all_texts) :
              /\ j < k
              /\ all_texts[j].text = all_texts[k].text
              /\ heads[j][1] /\ heads[k][1]
              /\ heads[j][2] # heads[k][2]
              /\ Cardinality({i \in 1..Len(outline) :
                                 outline[i].text = all_texts[j].text}) = 1

-----------------------------------------------------------------------------
(* extract_outline as main calls it: the whole function.  raises tells     *)
(* whether fitz.open, extract_title or a page's get_text raises.           *)

RECURSIVE CollectPages(_, _)
\* all_texts after the loop over the pages p, p + 1, ... of d
CollectPages(d, p) ==
    IF p > d.pages THEN <<>> ELSE CollectPage(d, p) \o CollectPages(d, p + 1)

\* the mean of texts, then the loop "Process each text span" over them
ClassifyAll(texts) == FirstPass(texts, MeanFontSize(texts), NoneAccepted)

\* extract_outline(pdf_path), d being the document at pdf_path
extract_outline(d, raises) ==
    IF raises THEN ErrorResult
    ELSE [title |-> extract_title(d),
          outline |-> RemoveDuplicates(
                          SortOutline(ClassifyAll(CollectPages(d, 1)).outline),
                          <<>>, {})]

-----------------------------------------------------------------------------
(* main: the batch over the input directory                                *)

\* 'report.pdf'
NameReport ==
    <<"r", "e", "p", "o", "r", "t", ".", "p", "d", "f">>

\* 'a.json.pdf'
NameJsonPdf ==
    <<"a", ".", "j", "s", "o", "n", ".", "p", "d", "f">>

\* 'a.pdf.pdf'
NamePdfPdf ==
    <<"a", ".", "p", "d", "f", ".", "p", "d", "f">>

\* 'B.PDF'
NameUpper ==
    <<"B", ".", "P", "D", "F">>

\* 'notes.txt'
NameNotes ==
    <<"n", "o", "t", "e", "s", ".", "t", "x", "t">>

\* '.pdf'
ExtPdf ==
    <<".", "p", "d", "f">>

\* '.json'
ExtJson ==
    <<".", "j", "s", "o", "n">>

RECURSIVE replace(_, _, _)
\* s.replace(old, new): every occurrence, leftmost first, without overlap
replace(s, old, new) ==
    IF Len(s) < Len(old) THEN s
    ELSE IF startswith(s, old)
    THEN new \o replace(SubSeq(s, Len(old) + 1, Len(s)), old, new)
    ELSE <<Head(s)>> \o replace(Tail(s), old, new)

\* filename.lower().endswith('.pdf')
IsPdfName(filename) == endswith(lower(filename), ExtPdf)

\* filename.replace('.pdf', '.json')
OutputName(filename) == replace(filename, ExtPdf, ExtJson)

MaxFiles == 3

\* the names os.listdir may return
FileNames == {NameReport, NameJsonPdf, NamePdfPdf, NameUpper, NameNotes}

\* a document without pages
BlankDoc == [meta |-> NoTitle, pages |-> 0, text |-> <<>>, spans |-> <<>>]

\* the documents a path may hold
MainDocs == {ScenarioDoc, BlankDoc}

\* the directory listing is a sequence of at most MaxFiles distinct names
InitMain ==
    /\ pc = "main loop"
    /\ \E k \in 0..MaxFiles :
          \E l \in [1..k -> FileNames] :
             /\ \A i \in 1..k, j \in 1..k : i # j => l[i] # l[j]
             /\ listing = l
    /\ pos = 0
    /\ attempts = <<>>
    /\ written = <<>>
    /\ result = NotCalled
    /\ hIn = Idle /\ hOut = Idle
    /\ tDoc = Idle /\ tOut = Idle
    /\ doc = Idle /\ title = Idle /\ all_texts = Idle /\ page_num = Idle
    /\ avg_font_size = Idle /\ outline = Idle
    /\ seen_headings = Idle /\ raised = Idle

mainOthers == <<headingVars, titleVars, doc, title, all_texts, page_num,
                avg_font_size, outline, seen_headings, raised>>

\* a turn of the for loop on a name that does not end in .pdf
SkipFile ==
    /\ pc = "main loop"
    /\ pos < Len(listing)
    /\ ~IsPdfName(listing[pos + 1])
    /\ pos' = pos + 1
    /\ UNCHANGED <<pc, listing, attempts, written, result, mainOthers>>

\* result = extractor.extract_outline(input_path)
ExtractDocument ==
    /\ pc = "main loop"
    /\ pos < Len(listing)
    /\ IsPdfName(listing[pos + 1])
    /\ \E d \in MainDocs, raises \in BOOLEAN :
          result' = extract_outline(d, raises)
    /\ attempts' = Append(attempts, listing[pos + 1])
    /\ pc' = "write"
    /\ UNCHANGED <<listing, pos, written, mainOthers>>

\* open(output_path, 'w') and json.dump(result, f); written is the list of
\* the files of the output directory, each [name, content]
WriteOutput ==
    /\ pc = "write"
    /\ LET name == OutputName(listing[pos + 1])
       IN  written' = Append(SelectSeq(written, LAMBDA w : w.name # name),
                             [name |-> name, content |-> result])
    /\ pos' = pos + 1
    /\ pc' = "main loop"
    /\ UNCHANGED <<listing, attempts, result, mainOthers>>

\* open or json.dump raises OSError: nothing in main catches it
WriteRaises ==
    /\ pc = "write"
    /\ pc' = "main aborted"
    /\ UNCHANGED <<listing, pos, attempts, written, result, mainOthers>>

\* the for loop is exhausted
FinishBatch ==
    /\ pc = "main loop"
    /\ pos = Len(listing)
    /\ pc' = "main returned"
    /\ UNCHANGED <<listing, pos, attempts, written, result, mainOthers>>

NextMain ==
    \/ SkipFile
    \/ ExtractDocument
    \/ WriteOutput
    \/ WriteRaises
    \/ FinishBatch

SpecMain == InitMain /\ [][NextMain]_vars

-----------------------------------------------------------------------------
(* Properties of main                                                      *)

\* the input documents: the names of the listing that end in .pdf
InputDocuments == {i \in 1..Len(listing) : IsPdfName(listing[i])}

\* the run of main is over
BatchOver == pc \in {"main returned", "main aborted"}

\* C6: the batch reaches its end having attempted every input document
\* exactly once and holding one output artifact for each of them; no failure
\* while handling a document stops the documents after it.
BatchCompletes ==
    /\ pc # "main aborted"
    /\ pc = "main returned" =>
          /\ \A i \in InputDocuments :
                Cardinality({a \in 1..Len(attempts) : attempts[a] = listing[i]}) = 1
          /\ Len(attempts) = Cardinality(InputDocuments)
          /\ Len(written) = Cardinality(InputDocuments)

\* the part of C6 that a completed run decides: one artifact for each
\* input document
OneArtifactPerDocument ==
    pc = "main returned" => Len(written) = Cardinality(InputDocuments)

=============================================================================
